---- MODULE Spec2Model ----
(***************************************************************************)
(* A model of scripts/fetch-books.js: the build-time script that lists the *)
(* lore books of the Vampirism repository, fetches the localization        *)
(* tables, the author metadata and the localized content of every book,    *)
(* and writes public/books.json and public/books-full.html.                *)
(*                                                                         *)
(* JavaScript strings are modelled as sequences of one-character strings,  *)
(* JavaScript objects as functions from their own keys to their values.    *)
(***************************************************************************)
EXTENDS Naturals, Sequences, FiniteSets

VARIABLES
  pc,        \* position of main(): the await it is suspended at, or its end
  BOOK_IDS,  \* main's BOOK_IDS, the result of discoverBookIds()
  output,    \* main's output object (the AggregateDocument)
  langIdx,   \* index into LANGS of the running `for (const lang of LANGS)` loop
  bookIdx,   \* index into BOOK_IDS of the running `for (const bookId of BOOK_IDS)`
  now,       \* the wall clock read by new Date()
  log,       \* the requests handed to fetch(), in the order issued
  fetched,   \* what fetchJSON returned for each request that completed
  res,       \* how the request issued last ended, "pending" while in flight
  files,     \* the files of public/ written so far
  exitCode,  \* the exit status of the process
  call,      \* the arguments of a helper under test
  ret        \* its result

vars == <<pc, BOOK_IDS, output, langIdx, bookIdx, now, log, fetched, res, files,
          exitCode, call, ret>>

(***************************************************************************)
(* Characters and string constants of the script                           *)
(***************************************************************************)

\* U+00A7, the section sign of the regular expression of stripFormattingCodes
Sentinel == "SECT"
\* U+000A; the `.` of a JavaScript regular expression matches no line terminator
LF == "\n"
LineTerminators == {LF}
\* what String.prototype.trim removes
WhiteSpace == {" ", LF}
\* U+2014, the dash that opens the footer
EmDash == "EMDASH"

en_us == <<"e", "n", "_", "u", "s">>
ru_ru == <<"r", "u", "_", "r", "u">>
uk_ua == <<"u", "k", "_", "u", "a">>
LANGS_reordered == <<ru_ru, en_us, uk_ua>>
LANGS == <<en_us, ru_ru, uk_ua>>

Unknown == <<"U", "n", "k", "n", "o", "w", "n">>
\* 'vampire_book.', the prefix filterLangTitles keeps
BookKeyPrefix == <<"v", "a", "m", "p", "i", "r", "e", "_", "b", "o", "o", "k", ".">>
\* 'vampire_book.vampirism.', the prefix of a title key
TitleKeyPrefix == BookKeyPrefix \o <<"v", "a", "m", "p", "i", "r", "i", "s", "m", ".">>

(***************************************************************************)
(* JavaScript values                                                       *)
(***************************************************************************)

\* the value of a missing property
Undefined == [def |-> FALSE, s |-> <<>>]
Defined(s) == [def |-> TRUE, s |-> s]
\* obj[key] of an object whose values are strings
Get(obj, key) == IF key \in DOMAIN obj THEN Defined(obj[key]) ELSE Undefined
\* obj[outer]?.[key]
GetIn(obj, outer, key) == IF outer \in DOMAIN obj THEN Get(obj[outer], key) ELSE Undefined
\* truthiness of a string-or-undefined value
Truthy(v) == v.def /\ Len(v.s) > 0

\* a JSON scalar or object as typeof sees it; tr is the `translate` property
JString(s) == [t |-> "string", s |-> s, tr |-> Undefined]
JNumber == [t |-> "number", s |-> <<>>, tr |-> Undefined]
JNull == [t |-> "null", s |-> <<>>, tr |-> Undefined]
JUndefined == [t |-> "undefined", s |-> <<>>, tr |-> Undefined]
JObject == [t |-> "object", s |-> <<>>, tr |-> Undefined]
JTranslate(key) == [t |-> "object", s |-> <<>>, tr |-> Defined(key)]
\* truthiness of such a value (JNumber stands for a non-zero number)
JTruthy(v) == CASE v.t = "string" -> Len(v.s) > 0
                [] v.t \in {"null", "undefined"} -> FALSE
                [] OTHER -> TRUE

(***************************************************************************)
(* Formatter                                                               *)
(***************************************************************************)

RECURSIVE ReplaceSentinelPairs(_)
\* text.replace(/SECT./g, ''): left to right, without overlap
ReplaceSentinelPairs(s) ==
  IF s = <<>> THEN <<>>
  ELSE IF Head(s) = Sentinel /\ Len(s) >= 2 /\ s[2] \notin LineTerminators
       THEN ReplaceSentinelPairs(SubSeq(s, 3, Len(s)))
       ELSE <<Head(s)>> \o ReplaceSentinelPairs(Tail(s))

RECURSIVE ReplaceSentinelOnly(_)
ReplaceSentinelOnly(s) ==
  IF s = <<>> THEN <<>>
  ELSE IF Head(s) = Sentinel /\ Len(s) >= 2 /\ s[2] \notin LineTerminators
       THEN ReplaceSentinelOnly(Tail(s))
       ELSE <<Head(s)>> \o ReplaceSentinelOnly(Tail(s))

\* stripFormattingCodes with /SECT/g in place of /SECT./g
stripFormattingCodes_keepsCode(text) ==
  IF text.t # "string" THEN text ELSE JString(ReplaceSentinelOnly(text.s))

stripFormattingCodes(text) ==
  IF text.t # "string" THEN text ELSE JString(ReplaceSentinelPairs(text.s))


RECURSIVE ReplaceChar(_, _, _)
\* str.replace(/c/g, r) for a one-character pattern c
ReplaceChar(s, c, r) ==
  IF s = <<>> THEN <<>>
  ELSE (IF Head(s) = c THEN r ELSE <<Head(s)>>) \o ReplaceChar(Tail(s), c, r)

\* escapeHTML replacing '<' first and '&' last: the '&' of '&lt;' is escaped again
escapeHTML_ampLast(str) ==
  IF str.t # "string" THEN <<>>
  ELSE ReplaceChar(
         ReplaceChar(
           ReplaceChar(
             ReplaceChar(str.s, "<", <<"&", "l", "t", ";">>),
             ">", <<"&", "g", "t", ";">>),
           "\"", <<"&", "q", "u", "o", "t", ";">>),
         "&", <<"&", "a", "m", "p", ";">>)

escapeHTML(str) ==
  IF str.t # "string" THEN <<>>
  ELSE ReplaceChar(
         ReplaceChar(
           ReplaceChar(
             ReplaceChar(str.s, "&", <<"&", "a", "m", "p", ";">>),
             "<", <<"&", "l", "t", ";">>),
           ">", <<"&", "g", "t", ";">>),
         "\"", <<"&", "q", "u", "o", "t", ";">>)

RECURSIVE TrimStart(_)
TrimStart(s) ==
  IF s # <<>> /\ Head(s) \in WhiteSpace THEN TrimStart(Tail(s)) ELSE s

RECURSIVE TrimEnd(_)
TrimEnd(s) ==
  IF s # <<>> /\ s[Len(s)] \in WhiteSpace THEN TrimEnd(SubSeq(s, 1, Len(s) - 1)) ELSE s

\* String.prototype.trim
Trim(s) == TrimEnd(TrimStart(s))

\* key.startsWith(prefix)
StartsWith(key, prefix) ==
  Len(key) >= Len(prefix) /\ SubSeq(key, 1, Len(prefix)) = prefix

(***************************************************************************)
(* Resolver                                                                *)
(***************************************************************************)

\* filterLangTitles that keeps every key
filterLangTitles_keepsAll(langData) == langData

\* langData is truthy wherever main calls it
filterLangTitles(langData) ==
  [key \in {k \in DOMAIN langData : StartsWith(k, BookKeyPrefix)} |-> langData[key]]

\* a || b || c on string-or-undefined values, c a string
Or3(a, b, c) == IF Truthy(a) THEN a.s ELSE IF Truthy(b) THEN b.s ELSE c

\* getBookTitle that never falls back to the en_us table
getBookTitle_noDefault(bookId, langTitles, lang) ==
  LET key == TitleKeyPrefix \o bookId
  IN  Or3(GetIn(langTitles, lang, key), Undefined, ReplaceChar(bookId, "_", <<" ">>))

getBookTitle(bookId, langTitles, lang) ==
  LET key == TitleKeyPrefix \o bookId
  IN  Or3(GetIn(langTitles, lang, key),
          GetIn(langTitles, en_us, key),
          ReplaceChar(bookId, "_", <<" ">>))

\* resolveAuthor that looks the translation key up in the en_us table only
resolveAuthor_defaultOnly(bookId, bookAuthors, langTitles, lang) ==
  IF bookId \notin DOMAIN bookAuthors THEN Unknown
  ELSE LET author == bookAuthors[bookId]
       IN  IF ~JTruthy(author) THEN Unknown
           ELSE IF author.t = "string" THEN author.s
           ELSE IF Truthy(author.tr)
                THEN Or3(Undefined, GetIn(langTitles, en_us, author.tr.s), Unknown)
                ELSE Unknown

resolveAuthor(bookId, bookAuthors, langTitles, lang) ==
  IF bookId \notin DOMAIN bookAuthors THEN Unknown
  ELSE LET author == bookAuthors[bookId]
       IN  IF ~JTruthy(author) THEN Unknown
           ELSE IF author.t = "string" THEN author.s
           ELSE IF Truthy(author.tr)
                THEN Or3(GetIn(langTitles, lang, author.tr.s),
                         GetIn(langTitles, en_us, author.tr.s),
                         Unknown)
                ELSE Unknown

(***************************************************************************)
(* Renderer                                                                *)
(***************************************************************************)

Line(tag, text) == [tag |-> tag, text |-> text]

\* the block the forEach callback appends for one page (a string)
PageBlock(page) ==
  LET text == Trim(stripFormattingCodes(page).s)
  IN  IF text # <<>>
      THEN << Line("section", <<>>),
              Line("p", ReplaceChar(escapeHTML(JString(text)), LF, <<"<", "b", "r", ">">>)),
              Line("/section", <<>>) >>
      ELSE <<>>

RECURSIVE PageBlocks(_)
\* content.contents.forEach(...)
PageBlocks(pages) ==
  IF pages = <<>> THEN <<>> ELSE PageBlock(Head(pages)) \o PageBlocks(Tail(pages))

\* what one iteration of the loop over bookIds appends to body
Article(data, bookId) ==
  IF bookId \notin DOMAIN data.books THEN <<>>
  ELSE IF en_us \notin DOMAIN data.books[bookId] THEN <<>>
  ELSE LET content == data.books[bookId][en_us]
           title == getBookTitle(bookId, data.langTitles, en_us)
           author == resolveAuthor(bookId, data.bookAuthors, data.langTitles, en_us)
       IN  << Line("article", <<>>),
              Line("h2", escapeHTML(JString(title))),
              Line("byline", escapeHTML(JString(author))) >>
           \o (IF content.isArray THEN PageBlocks(content.contents) ELSE <<>>)
           \o (IF JTruthy(content.credit)
               THEN << Line("footer", <<EmDash, " ">>
                                      \o escapeHTML(stripFormattingCodes(content.credit))) >>
               ELSE <<>>)
           \o << Line("/article", <<>>) >>

RECURSIVE Body(_, _)
Body(data, bookIds) ==
  IF bookIds = <<>> THEN <<>>
  ELSE Article(data, Head(bookIds)) \o Body(data, Tail(bookIds))

\* stripFormattingCodes(page).trim() raises a TypeError for a page that is no string
RenderThrows(data, bookIds) ==
  \E i \in 1..Len(bookIds) :
     /\ bookIds[i] \in DOMAIN data.books
     /\ en_us \in DOMAIN data.books[bookIds[i]]
     /\ data.books[bookIds[i]][en_us].isArray
     /\ \E j \in 1..Len(data.books[bookIds[i]][en_us].contents) :
           data.books[bookIds[i]][en_us].contents[j].t # "string"

\* the document: the fixed shell around generatedAt and body
buildFullHTML(data, bookIds) ==
  IF RenderThrows(data, bookIds)
  THEN [threw |-> TRUE, generatedAt |-> data.generatedAt, body |-> <<>>]
  ELSE [threw |-> FALSE, generatedAt |-> data.generatedAt, body |-> Body(data, bookIds)]

(***************************************************************************)
(* The helpers on their own: the arguments are drawn in the initial state  *)
(* and one step applies the helper to them.                                *)
(***************************************************************************)

\* longest text handed to stripFormattingCodes
MaxLen == 4
\* most pages of a content document handed to buildFullHTML
MaxPages == 2

foo == <<"f", "o", "o">>
bar_baz == <<"b", "a", "r", "_", "b", "a", "z">>
\* a language outside LANGS
fr_fr == <<"f", "r", "_", "f", "r">>
\* a translation key under the prefix filterLangTitles keeps, and one outside it
AuthorKey == BookKeyPrefix \o <<"a", "u", "t", "h", "o", "r">>
OutsideKey == <<"t", "e", "x", "t", ".", "a", "u", "t", "h", "o", "r">>
Ann == <<"A", "n", "n">>

Hello == <<"H", "e", "l", "l", "o", ",", " ", "f", "r", "i", "e", "n", "d", ".">>
Narrator == <<"-", " ", "N", "a", "r", "r", "a", "t", "o", "r">>

NoOutput == [generatedAt |-> 0, langTitles |-> <<>>, bookAuthors |-> <<>>, books |-> <<>>]
NoRet == [done |-> FALSE, val |-> <<>>]
Returned(v) == [done |-> TRUE, val |-> v]

\* main() is not running
Idle ==
  /\ pc = "idle"
  /\ BOOK_IDS = <<>>
  /\ output = NoOutput
  /\ langIdx = 1
  /\ bookIdx = 1
  /\ now = 0
  /\ log = <<>>
  /\ fetched = <<>>
  /\ res = "none"
  /\ files = <<>>
  /\ exitCode = {}

mainVars ==
  <<pc, BOOK_IDS, output, langIdx, bookIdx, now, log, fetched, res, files, exitCode>>

Strings(chars, n) == UNION {[1..k -> chars] : k \in 0..n}
Maps(keys, vals) == UNION {[d -> vals] : d \in SUBSET keys}

\* ---- stripFormattingCodes ----

StripTexts == {JString(s) : s \in Strings({Sentinel, "a", LF}, MaxLen)} \cup {JNumber, JNull}

InitStrip ==
  /\ Idle
  /\ call \in {[fn |-> "stripFormattingCodes", text |-> t] : t \in StripTexts}
  /\ ret = NoRet

StripCall ==
  /\ call.fn = "stripFormattingCodes"
  /\ ~ret.done
  /\ ret' = Returned(stripFormattingCodes(call.text))
  /\ UNCHANGED <<mainVars, call>>

NextStrip == StripCall
SpecStrip == InitStrip /\ [][NextStrip]_vars

\* ---- getBookTitle and resolveAuthor ----

ResolveIds == {foo, bar_baz}
ResolveLangs == {en_us, ru_ru, fr_fr}
\* the tables of a language: its values are the empty string or the language's own mark
TablesOf(mark) == Maps({TitleKeyPrefix \o foo, AuthorKey}, {<<>>, <<mark>>})
ResolveTables ==
  {[l \in d |-> IF l = en_us THEN p[1] ELSE p[2]] :
     d \in SUBSET {en_us, ru_ru}, p \in TablesOf("E") \X TablesOf("R")}
AuthorRefs ==
  {JString(Ann), JString(<<>>), JTranslate(AuthorKey), JTranslate(<<>>),
   JNumber, JNull, JObject}
ResolveAuthors == Maps({foo}, AuthorRefs)

InitResolve ==
  /\ Idle
  /\ call \in
       {[fn |-> "getBookTitle", bookId |-> i, bookAuthors |-> <<>>, langTitles |-> t,
         lang |-> l] : i \in ResolveIds, t \in ResolveTables, l \in ResolveLangs}
       \cup
       {[fn |-> "resolveAuthor", bookId |-> i, bookAuthors |-> a, langTitles |-> t,
         lang |-> l] : i \in {foo, bar_baz}, a \in ResolveAuthors, t \in ResolveTables,
                       l \in ResolveLangs}
  /\ ret = NoRet

TitleCall ==
  /\ call.fn = "getBookTitle"
  /\ ~ret.done
  /\ ret' = Returned(getBookTitle(call.bookId, call.langTitles, call.lang))
  /\ UNCHANGED <<mainVars, call>>

AuthorCall ==
  /\ call.fn = "resolveAuthor"
  /\ ~ret.done
  /\ ret' = Returned(resolveAuthor(call.bookId, call.bookAuthors, call.langTitles, call.lang))
  /\ UNCHANGED <<mainVars, call>>

NextResolve == TitleCall \/ AuthorCall
SpecResolve == InitResolve /\ [][NextResolve]_vars

\* ---- buildFullHTML ----

RenderPages ==
  {JString(Hello), JString(<<>>), JString(<<" ">>), JString(<<Sentinel, "a">>),
   JString(<<"a", LF, "b">>), JString(<<"<", "&">>), JNumber}
RenderCredits == {JUndefined, JString(Narrator), JString(<<Sentinel, "a">>), JString(<<>>)}
ContentDoc(isArray, contents, credit) ==
  [isArray |-> isArray, contents |-> contents, credit |-> credit]
\* the content of the end-to-end example
HelloDoc == ContentDoc(TRUE, <<JString(Hello), JString(<<>>)>>, JString(Narrator))
RenderDocs ==
  {ContentDoc(TRUE, c, k) : c \in Strings(RenderPages, MaxPages), k \in RenderCredits}
  \cup {ContentDoc(FALSE, <<>>, k) : k \in RenderCredits}

InitRender ==
  /\ Idle
  /\ call \in {[fn |-> "buildFullHTML", lang |-> l, content |-> c] :
                 l \in {en_us, ru_ru}, c \in RenderDocs}
  /\ ret = NoRet

\* the document of one book, foo, whose only content is call.content in call.lang
RenderData ==
  [generatedAt |-> 1, langTitles |-> <<>>, bookAuthors |-> <<>>,
   books |-> [i \in {foo} |-> [l \in {call.lang} |-> call.content]]]

RenderCall ==
  /\ call.fn = "buildFullHTML"
  /\ ~ret.done
  /\ ret' = Returned(buildFullHTML(RenderData, <<foo>>))
  /\ UNCHANGED <<mainVars, call>>

NextRender == RenderCall
SpecRender == InitRender /\ [][NextRender]_vars

(***************************************************************************)
(* The remote repository and the responses of fetch()                      *)
(***************************************************************************)

\* most entries of the vampire_books directory listing
MaxEntries == 3

readme == <<"R", "E", "A", "D", "M", "E">>
quill == <<"q">>
Entry(type, name) == [type |-> type, name |-> name]
\* the directory of the remote repository; a listing shows its first entries
RemoteListing ==
  <<Entry("dir", foo), Entry("file", readme), Entry("dir", bar_baz), Entry("dir", quill)>>
ListingBody(n) == [isArray |-> TRUE, entries |-> SubSeq(RemoteListing, 1, n)]
\* a JSON value that is no array, such as the error object of the API
NotAList == [isArray |-> FALSE, entries |-> <<>>]
ListingBodies ==
  {ListingBody(n) : n \in {m \in 0..MaxEntries : m <= Len(RemoteListing)}} \cup {NotAList}

\* lang/<lang>.json of the remote repository
RemoteLang(lang) ==
  IF lang = en_us
  THEN [k \in {TitleKeyPrefix \o foo, AuthorKey, OutsideKey} |->
          IF k = AuthorKey THEN <<"C", "a", "r", "l">>
          ELSE IF k = OutsideKey THEN <<"B", "o", "b">>
          ELSE <<"F", "o", "o", "s">>]
  ELSE IF lang = ru_ru
  THEN [k \in {TitleKeyPrefix \o foo, OutsideKey} |-> <<"R">>]
  ELSE [k \in {OutsideKey} |-> <<"U">>]

AuthorDoc(hasAuthor, author) == [hasAuthor |-> hasAuthor, author |-> author]
\* what vampire_book/<id>.json may hold
RemoteAuthors(id) ==
  IF id = foo THEN {AuthorDoc(TRUE, JString(Ann)), AuthorDoc(TRUE, JTranslate(AuthorKey))}
  ELSE IF id = bar_baz
  THEN {AuthorDoc(TRUE, JTranslate(OutsideKey)), AuthorDoc(FALSE, JUndefined)}
  ELSE {AuthorDoc(TRUE, JString(Ann))}

\* vampire_books/<id>/<lang>.json of the remote repository, if there is one:
\* quill is translated into no other language
RemoteContent(id, lang) ==
  IF id = foo /\ lang = en_us THEN {HelloDoc}
  ELSE IF id = foo THEN {ContentDoc(TRUE, <<JString(<<Sentinel, "a", "P">>)>>, JUndefined)}
  ELSE IF id = quill /\ lang # en_us THEN {}
  ELSE {ContentDoc(TRUE, <<JString(<<"<", "&">>)>>, JString(<<"c">>))}
\* the body of the answer for a resource that does not exist
NotFound == ContentDoc(FALSE, <<>>, JUndefined)

Url(kind, id, lang) == [kind |-> kind, id |-> id, lang |-> lang]
BOOKS_DIR_API == Url("listing", <<>>, <<>>)
LangUrl(lang) == Url("lang", <<>>, lang)
AuthorUrl(id) == Url("author", id, <<>>)
ContentUrl(id, lang) == Url("content", id, lang)

\* how a request can end: fetch() rejects, the status is no success, res.json()
\* rejects, or the JSON value of the resource arrives
Failures == {"transport", "http", "parse"}
Response(kind, body) == [kind |-> kind, body |-> body]
\* body is the resource behind the URL, which only a response that is ok
\* delivers; a resource that does not exist is answered with status 404
Responses(bodies) ==
  IF bodies = {} THEN {Response("http", NotFound)}
  ELSE {Response(k, b) : k \in Failures \cup {"ok"}, b \in bodies}

(***************************************************************************)
(* Fetcher, Discovery, Aggregator, Writer                                  *)
(***************************************************************************)

Null == [null |-> TRUE, body |-> <<>>]
Value(body) == [null |-> FALSE, body |-> body]

\* fetchJSON without the test of res.ok
fetchJSON_ignoresStatus(resp) ==
  CASE resp.kind = "transport" -> Null
    [] resp.kind = "http" -> Value(resp.body)
    [] resp.kind = "parse" -> Null
    [] OTHER -> Value(resp.body)

fetchJSON(resp) ==
  CASE resp.kind = "transport" -> Null
    [] resp.kind = "http" -> Null
    [] resp.kind = "parse" -> Null
    [] OTHER -> Value(resp.body)

\* Array.isArray taken for a test of truthiness
IsArray_truthy(v) == ~v.null

\* Array.isArray(v) of what fetchJSON returned
IsArray(v) == ~v.null /\ v.body.isArray

IsDir(e) == e.type = "dir"
\* entries.filter(e => e.type === 'dir').map(e => e.name)
DirNames(entries) ==
  LET dirs == SelectSeq(entries, IsDir) IN [i \in 1..Len(dirs) |-> dirs[i].name]

\* obj = {[key]: val}
Put_replaces(obj, key, val) == [k \in {key} |-> val]

\* obj[key] = val
Put(obj, key, val) == [k \in DOMAIN obj \cup {key} |-> IF k = key THEN val ELSE obj[k]]

\* the output object main creates, with the clock read as generatedAt
NewOutput_noClock(t) ==
  [generatedAt |-> 0, langTitles |-> <<>>, bookAuthors |-> <<>>, books |-> <<>>]

NewOutput(t) ==
  [generatedAt |-> t, langTitles |-> <<>>, bookAuthors |-> <<>>, books |-> <<>>]

Pairs(obj) == {<<k, obj[k]>> : k \in DOMAIN obj}
\* JSON.stringify(output, null, 2): the members of every object
JSONstringify(o) ==
  [generatedAt |-> o.generatedAt,
   langTitles |-> {<<l, Pairs(o.langTitles[l])>> : l \in DOMAIN o.langTitles},
   bookAuthors |-> Pairs(o.bookAuthors),
   books |-> {<<b, Pairs(o.books[b])>> : b \in DOMAIN o.books}]

Init ==
  /\ pc = "start"
  /\ BOOK_IDS = <<>>
  /\ output = NoOutput
  /\ langIdx = 1
  /\ bookIdx = 1
  /\ now = 0
  /\ log = <<>>
  /\ fetched = <<>>
  /\ res = "none"
  /\ files = <<>>
  /\ exitCode = {}
  /\ call = [fn |-> "main"]
  /\ ret = NoRet

Issue(url) ==
  /\ log' = Append(log, [url |-> url, at |-> now])
  /\ res' = "pending"
Complete(resp, result) ==
  /\ now' = now + 1
  /\ res' = resp.kind
  /\ fetched' = Append(fetched, [r |-> result, at |-> now + 1])

\* discoverBookIds up to its await
DiscoverIssue ==
  /\ pc = "start"
  /\ Issue(BOOKS_DIR_API)
  /\ pc' = "await_listing"
  /\ UNCHANGED <<BOOK_IDS, output, langIdx, bookIdx, now, fetched, files, exitCode, call, ret>>

\* the rest of discoverBookIds, and main up to the loop over LANGS
DiscoverReturn ==
  /\ pc = "await_listing"
  /\ \E resp \in Responses(ListingBodies) :
       LET entries == fetchJSON(resp)
       IN  /\ Complete(resp, entries)
           /\ IF ~IsArray(entries)
              THEN /\ exitCode' = {1}
                   /\ pc' = "exited"
                   /\ UNCHANGED <<BOOK_IDS, output>>
              ELSE /\ BOOK_IDS' = DirNames(entries.body.entries)
                   /\ output' = NewOutput(now')
                   /\ pc' = "lang"
                   /\ UNCHANGED exitCode
  /\ UNCHANGED <<langIdx, bookIdx, log, files, call, ret>>

\* the loop over LANGS up to its await
LangIssue ==
  /\ pc = "lang"
  /\ Issue(LangUrl(LANGS[langIdx]))
  /\ pc' = "await_lang"
  /\ UNCHANGED <<BOOK_IDS, output, langIdx, bookIdx, now, fetched, files, exitCode, call, ret>>

\* the rest of its body
LangReturn ==
  /\ pc = "await_lang"
  /\ \E resp \in Responses({RemoteLang(LANGS[langIdx])}) :
       LET data == fetchJSON(resp)
       IN  /\ Complete(resp, data)
           /\ output' = IF ~data.null
                        THEN [output EXCEPT !.langTitles =
                                Put(@, LANGS[langIdx], filterLangTitles(data.body))]
                        ELSE output
  /\ IF langIdx < Len(LANGS)
     THEN langIdx' = langIdx + 1 /\ pc' = "lang"
     ELSE langIdx' = 1 /\ pc' = "book"
  /\ UNCHANGED <<BOOK_IDS, bookIdx, log, files, exitCode, call, ret>>

\* the loop over BOOK_IDS up to its first await
AuthorIssue ==
  /\ pc = "book"
  /\ bookIdx <= Len(BOOK_IDS)
  /\ Issue(AuthorUrl(BOOK_IDS[bookIdx]))
  /\ pc' = "await_author"
  /\ UNCHANGED <<BOOK_IDS, output, langIdx, bookIdx, now, fetched, files, exitCode, call, ret>>

\* from there to the inner loop over LANGS
AuthorReturn ==
  /\ pc = "await_author"
  /\ \E resp \in Responses(RemoteAuthors(BOOK_IDS[bookIdx])) :
       LET authorData == fetchJSON(resp)
           bookId == BOOK_IDS[bookIdx]
           recorded == IF ~authorData.null /\ authorData.body.hasAuthor
                          /\ JTruthy(authorData.body.author)
                       THEN Put(output.bookAuthors, bookId, authorData.body.author)
                       ELSE output.bookAuthors
       IN  /\ Complete(resp, authorData)
           /\ output' = [output EXCEPT !.bookAuthors = recorded,
                                       !.books = Put(@, bookId, <<>>)]
  /\ pc' = "content"
  /\ UNCHANGED <<BOOK_IDS, langIdx, bookIdx, log, files, exitCode, call, ret>>

\* the inner loop over LANGS up to its await
ContentIssue ==
  /\ pc = "content"
  /\ Issue(ContentUrl(BOOK_IDS[bookIdx], LANGS[langIdx]))
  /\ pc' = "await_content"
  /\ UNCHANGED <<BOOK_IDS, output, langIdx, bookIdx, now, fetched, files, exitCode, call, ret>>

\* the rest of its body and, after the last language, the end of the outer body
ContentReturn ==
  /\ pc = "await_content"
  /\ LET bookId == BOOK_IDS[bookIdx]
         lang == LANGS[langIdx]
     IN  \E resp \in Responses(RemoteContent(bookId, lang)) :
           LET data == fetchJSON(resp)
           IN  /\ Complete(resp, data)
               /\ output' = IF ~data.null
                            THEN [output EXCEPT !.books[bookId] = Put(@, lang, data.body)]
                            ELSE output
  /\ IF langIdx < Len(LANGS)
     THEN /\ langIdx' = langIdx + 1
          /\ pc' = "content"
          /\ UNCHANGED bookIdx
     ELSE /\ langIdx' = 1
          /\ bookIdx' = bookIdx + 1
          /\ pc' = "book"
  /\ UNCHANGED <<BOOK_IDS, log, files, exitCode, call, ret>>

\* mkdirSync and the first writeFileSync
WriteJson ==
  /\ pc = "book"
  /\ bookIdx > Len(BOOK_IDS)
  /\ files' = Put(files, "books.json", JSONstringify(output))
  /\ pc' = "write_html"
  /\ UNCHANGED <<BOOK_IDS, output, langIdx, bookIdx, now, log, fetched, res, exitCode, call, ret>>

\* buildFullHTML and the second writeFileSync; an error is caught by main().catch
WriteHtml ==
  /\ pc = "write_html"
  /\ LET html == buildFullHTML(output, BOOK_IDS)
     IN  IF html.threw
         THEN /\ exitCode' = {1}
              /\ pc' = "exited"
              /\ UNCHANGED files
         ELSE /\ files' = Put(files, "books-full.html", html)
              /\ exitCode' = {0}
              /\ pc' = "done"
  /\ UNCHANGED <<BOOK_IDS, output, langIdx, bookIdx, now, log, fetched, res, call, ret>>

Next ==
  \/ DiscoverIssue \/ DiscoverReturn
  \/ LangIssue \/ LangReturn
  \/ AuthorIssue \/ AuthorReturn
  \/ ContentIssue \/ ContentReturn
  \/ WriteJson \/ WriteHtml

Spec == Init /\ [][Next]_vars

(***************************************************************************)
(* Properties of a run of main                                             *)
(***************************************************************************)

DiscoveryDone == Len(fetched) >= 1
DiscoveryFailed == DiscoveryDone /\ (fetched[1].r.null \/ ~fetched[1].r.body.isArray)
DiscoverySucceeded == DiscoveryDone /\ ~DiscoveryFailed
Discovered == {BOOK_IDS[i] : i \in 1..Len(BOOK_IDS)}
Written(name) == name \in DOMAIN files
Completed(url) == \E k \in 1..Len(fetched) : log[k].url = url
\* what fetchJSON returned for a completed request
ResultOf(url) == fetched[CHOOSE k \in 1..Len(fetched) : log[k].url = url].r
Keys(pairs) == {p[1] : p \in pairs}

\* C1: when the listing fetch yields anything but a list, the run ends with
\* exit status 1, the listing is the only request ever issued and neither
\* books.json nor books-full.html is written.
C1_DiscoveryFailure ==
  DiscoveryFailed =>
    /\ pc = "exited"
    /\ exitCode = {1}
    /\ Len(log) = 1 /\ log[1].url = BOOKS_DIR_API
    /\ DOMAIN files = {}
    /\ ~ENABLED Next

\* the listing came back as a JSON value that is no array and the process exited
C1_Witness ==
  /\ DiscoveryFailed
  /\ ~fetched[1].r.null
  /\ res = "ok"
  /\ exitCode = {1}

\* C2: after a successful discovery every failed request (transport error,
\* non-success status, unparsable body) makes fetchJSON return null, nothing
\* ends the run before its last request, the document holds an entry for
\* exactly the requests that succeeded (a table per language, an author per
\* item whose document carries one, a content per item and language), and the
\* run ends with both files written and exit status 0.
C2_PartialFailure ==
  DiscoverySucceeded =>
    /\ res \in Failures => fetched[Len(fetched)].r.null
    /\ pc # "exited" /\ exitCode \subseteq {0}
    /\ \A l \in {en_us, ru_ru, uk_ua} :
          Completed(LangUrl(l)) =>
            (l \in DOMAIN output.langTitles <=> ~ResultOf(LangUrl(l)).null)
    /\ \A b \in Discovered :
          /\ Completed(AuthorUrl(b)) =>
               /\ b \in DOMAIN output.bookAuthors
                    <=> (~ResultOf(AuthorUrl(b)).null /\ ResultOf(AuthorUrl(b)).body.hasAuthor)
               /\ b \in DOMAIN output.bookAuthors
                    => output.bookAuthors[b] = ResultOf(AuthorUrl(b)).body.author
          /\ \A l \in {en_us, ru_ru, uk_ua} :
                Completed(ContentUrl(b, l)) =>
                  /\ l \in DOMAIN output.books[b] <=> ~ResultOf(ContentUrl(b, l)).null
                  /\ l \in DOMAIN output.books[b]
                       => output.books[b][l] = ResultOf(ContentUrl(b, l)).body
    /\ pc = "done" =>
         /\ exitCode = {0}
         /\ Written("books.json") /\ Written("books-full.html")
         /\ files["books.json"] = JSONstringify(output)
         /\ Len(fetched) = 4 + 4 * Len(BOOK_IDS)

\* the ru_ru content of foo failed, its en_us content arrived, and the run ended well
C2_Witness ==
  /\ pc = "done"
  /\ exitCode = {0}
  /\ foo \in Discovered
  /\ ResultOf(ContentUrl(foo, ru_ru)).null
  /\ DOMAIN output.books[foo] = {en_us}
  /\ \E b \in files["books.json"].books : b[1] = foo /\ Keys(b[2]) = {en_us}

\* C3, as stated: every key of the localization tables collection and of the
\* author collection is a discovered id, and at serialization every discovered
\* id has an entry in the content collection.
C3_KeysAreIds ==
  /\ DOMAIN output.langTitles \subseteq Discovered
  /\ DOMAIN output.bookAuthors \subseteq Discovered
  /\ Written("books.json") =>
       /\ Keys(files["books.json"].langTitles) \subseteq Discovered
       /\ Keys(files["books.json"].bookAuthors) \subseteq Discovered
       /\ Keys(files["books.json"].books) = Discovered

\* C3, amended: in every state of the run and in the serialized document every
\* key of the author collection and of the content collection is a discovered
\* id; the keys of the localization tables collection are language codes of
\* LANGS and the keys of each table are translation keys starting with
\* "vampire_book.", not item ids; at serialization every discovered id has an
\* entry in the content collection, an empty one when none of its content
\* fetches succeeded.
C3_Keys ==
  /\ DOMAIN output.langTitles \subseteq {en_us, ru_ru, uk_ua}
  /\ \A l \in DOMAIN output.langTitles :
        \A k \in DOMAIN output.langTitles[l] : StartsWith(k, BookKeyPrefix)
  /\ DOMAIN output.bookAuthors \subseteq Discovered
  /\ DOMAIN output.books \subseteq Discovered
  /\ Written("books.json") =>
       LET json == files["books.json"]
       IN  /\ Keys(json.langTitles) \subseteq {en_us, ru_ru, uk_ua}
           /\ Keys(json.bookAuthors) \subseteq Discovered
           /\ Keys(json.books) = Discovered
           /\ \A b \in Discovered :
                 (\A l \in {en_us, ru_ru, uk_ua} : ResultOf(ContentUrl(b, l)).null)
                 => <<b, {}>> \in json.books

\* two books were found, the second got no content at all and is in the file, empty
C3_Witness ==
  /\ Written("books.json")
  /\ Len(BOOK_IDS) = 2
  /\ <<bar_baz, {}>> \in files["books.json"].books
  /\ foo \in Keys(files["books.json"].bookAuthors)
  /\ en_us \in Keys(files["books.json"].langTitles)

\* C4, as stated: the timestamp of the document is taken at the start of
\* serialization, after every table, author and content fetch has completed.
C4_StampAtSerialization ==
  Written("books.json") =>
    \A k \in 1..Len(fetched) : fetched[k].at <= files["books.json"].generatedAt

\* C4, amended: the timestamp of the document is taken when main creates the
\* document, right after discovery has completed and before any table, author
\* or content fetch is issued; it is the one written to both files.
C4_StampAtCreation ==
  DiscoverySucceeded =>
    /\ output.generatedAt = fetched[1].at
    /\ \A k \in 2..Len(log) : output.generatedAt <= log[k].at
    /\ \A k \in 2..Len(fetched) : output.generatedAt < fetched[k].at
    /\ Written("books.json") => files["books.json"].generatedAt = output.generatedAt
    /\ Written("books-full.html") =>
         files["books-full.html"].generatedAt = output.generatedAt

\* the data file holds a timestamp older than the last fetch of the run
C4_Witness ==
  /\ Written("books.json")
  /\ files["books.json"].generatedAt = 1
  /\ fetched[Len(fetched)].at > 1

RECURSIVE ItemRequests(_)
\* per item: its author fetch, then its content in en_us, ru_ru, uk_ua
ItemRequests(ids) ==
  IF ids = <<>> THEN <<>>
  ELSE << AuthorUrl(Head(ids)), ContentUrl(Head(ids), en_us),
          ContentUrl(Head(ids), ru_ru), ContentUrl(Head(ids), uk_ua) >>
       \o ItemRequests(Tail(ids))
ExpectedRequests(ids) ==
  <<BOOKS_DIR_API, LangUrl(en_us), LangUrl(ru_ru), LangUrl(uk_ua)>> \o ItemRequests(ids)

\* C5: the requests are issued one at a time, each after the one before has
\* completed, in the order listing, tables of en_us, ru_ru, uk_ua, then per
\* item in discovery order its author document and its content in en_us,
\* ru_ru, uk_ua; nothing is written before the last of them has completed.
C5_SequentialOrder ==
  /\ Len(fetched) <= Len(log) /\ Len(log) <= Len(fetched) + 1
  /\ \A k \in 2..Len(log) : fetched[k - 1].at <= log[k].at
  /\ Len(log) <= 4 + 4 * Len(BOOK_IDS)
  /\ [k \in 1..Len(log) |-> log[k].url] = SubSeq(ExpectedRequests(BOOK_IDS), 1, Len(log))
  /\ DOMAIN files # {} =>
       /\ Len(fetched) = 4 + 4 * Len(BOOK_IDS)
       /\ Len(log) = Len(fetched)

\* both items of a listing have been fetched in full and the files are written
C5_Witness ==
  /\ pc = "done"
  /\ BOOK_IDS = <<foo, bar_baz>>
  /\ Len(log) = 12
  /\ log[9].url = AuthorUrl(bar_baz)

IsByline(l) == l.tag = "byline"
HasEnglish(b) == b \in DOMAIN output.books /\ en_us \in DOMAIN output.books[b]
\* the byline of item b in the rendered document
BylineOf(b) ==
  LET rendered == SelectSeq(BOOK_IDS, HasEnglish)
      j == CHOOSE j \in 1..Len(rendered) : rendered[j] = b
  IN  SelectSeq(files["books-full.html"].body, IsByline)[j].text

\* C10: every table of the document holds exactly the fetched entries whose
\* key starts with "vampire_book."; the byline of an item whose author is an
\* indirection record is the string of the en_us table when the key is under
\* that prefix and fetched, and "Unknown" when the key is outside the prefix,
\* even though the fetched table defines it.
C10_FilteredTables ==
  /\ \A l \in DOMAIN output.langTitles :
        LET body == ResultOf(LangUrl(l)).body
        IN  /\ DOMAIN output.langTitles[l]
                 = {k \in DOMAIN body : StartsWith(k, BookKeyPrefix)}
            /\ \A k \in DOMAIN output.langTitles[l] : output.langTitles[l][k] = body[k]
  /\ Written("books-full.html") =>
       \A b \in Discovered :
          ( /\ HasEnglish(b)
            /\ b \in DOMAIN output.bookAuthors
            /\ output.bookAuthors[b].t = "object"
            /\ ~ResultOf(LangUrl(en_us)).null )
          => LET key == output.bookAuthors[b].tr.s
                 remote == ResultOf(LangUrl(en_us)).body
             IN  /\ ~StartsWith(key, BookKeyPrefix) => BylineOf(b) = Unknown
                 /\ (StartsWith(key, BookKeyPrefix) /\ key \in DOMAIN remote)
                    => BylineOf(b) = remote[key]

\* the en_us table fetched defines the key of bar_baz's author, outside the
\* prefix, and the byline written for bar_baz is "Unknown"; that of foo, whose
\* key is under the prefix, is the string of the table
C10_Witness ==
  /\ Written("books-full.html")
  /\ HasEnglish(bar_baz)
  /\ bar_baz \in DOMAIN output.bookAuthors
  /\ output.bookAuthors[bar_baz] = JTranslate(OutsideKey)
  /\ ~ResultOf(LangUrl(en_us)).null
  /\ OutsideKey \in DOMAIN ResultOf(LangUrl(en_us)).body
  /\ BylineOf(bar_baz) = Unknown
  /\ HasEnglish(foo)
  /\ foo \in DOMAIN output.bookAuthors
  /\ output.bookAuthors[foo] = JTranslate(AuthorKey)
  /\ BylineOf(foo) = <<"C", "a", "r", "l">>

(***************************************************************************)
(* Properties of the helpers                                               *)
(***************************************************************************)

HasSentinel(s) == \E i \in 1..Len(s) : s[i] = Sentinel
StripDone == ret.done /\ call.fn = "stripFormattingCodes"

RECURSIVE CharsAt(_, _, _)
\* the characters of s at the positions of keep, from position i on
CharsAt(s, keep, i) ==
  IF i > Len(s) THEN <<>>
  ELSE (IF i \in keep THEN <<s[i]>> ELSE <<>>) \o CharsAt(s, keep, i + 1)

\* s without its sentinels and without the character after each
WithoutCodes(s) ==
  CharsAt(s, {i \in 1..Len(s) : s[i] # Sentinel /\ (i = 1 \/ s[i - 1] # Sentinel)}, 1)

\* C9, as stated: for every string in which each sentinel is followed by a
\* character, the result of stripFormattingCodes holds no sentinel; a string
\* without the sentinel and a value that is no string are returned unchanged.
C9_AnyFollower ==
  StripDone =>
    /\ call.text.t # "string" => ret.val = call.text
    /\ (call.text.t = "string" /\ ~HasSentinel(call.text.s)) => ret.val = call.text
    /\ ( /\ call.text.t = "string"
         /\ \A i \in 1..Len(call.text.s) :
               call.text.s[i] = Sentinel => i < Len(call.text.s) )
       => ~HasSentinel(ret.val.s)

\* C9, amended: stripFormattingCodes removes, left to right and without overlap,
\* each sentinel together with the character after it unless that character is
\* a line terminator.  When every sentinel is followed by a character that is
\* no line terminator the result holds no sentinel; when moreover no sentinel
\* follows a sentinel the result is the text without the sentinels and the
\* characters after them; a sentinel that stands before a line terminator and
\* not after a sentinel is kept; a string without the sentinel and a value
\* that is no string are returned unchanged.
C9_StripFormattingCodes ==
  StripDone =>
    LET s == call.text.s
        followed == \A i \in 1..Len(s) :
                       s[i] = Sentinel => (i < Len(s) /\ s[i + 1] \notin LineTerminators)
        isolated == \A i \in 1..Len(s) :
                       s[i] = Sentinel => (i < Len(s) /\ s[i + 1] # Sentinel)
    IN  /\ call.text.t # "string" => ret.val = call.text
        /\ (call.text.t = "string" /\ ~HasSentinel(s)) => ret.val = call.text
        /\ (call.text.t = "string" /\ followed) => ~HasSentinel(ret.val.s)
        /\ (call.text.t = "string" /\ followed /\ isolated)
           => ret.val = JString(WithoutCodes(s))
        /\ ( /\ call.text.t = "string"
             /\ \E i \in 1..Len(s) :
                   /\ s[i] = Sentinel
                   /\ i < Len(s) /\ s[i + 1] \in LineTerminators
                   /\ (i = 1 \/ s[i - 1] # Sentinel) )
           => HasSentinel(ret.val.s)

\* a text with one code and one plain character has been stripped to the plain one
C9_Witness ==
  /\ StripDone
  /\ call.text = JString(<<Sentinel, "a", "a">>)
  /\ ret.val = JString(<<"a">>)

TitleDone == ret.done /\ call.fn = "getBookTitle"
TitleKey == TitleKeyPrefix \o call.bookId
\* the item id with every underscore replaced by a space
Spaced(id) == [i \in 1..Len(id) |-> IF id[i] = "_" THEN " " ELSE id[i]]
Has(tables, lang, key) == lang \in DOMAIN tables /\ key \in DOMAIN tables[lang]

\* C8, as stated: getBookTitle returns a non-empty string: the value of the
\* title key in tables[language] if the key is present there, else its value
\* in tables[en_us] if present there, else the id with spaces for underscores.
C8_PresentKey ==
  TitleDone =>
    /\ ret.val # <<>>
    /\ ret.val = IF Has(call.langTitles, call.lang, TitleKey)
                 THEN call.langTitles[call.lang][TitleKey]
                 ELSE IF Has(call.langTitles, en_us, TitleKey)
                      THEN call.langTitles[en_us][TitleKey]
                      ELSE Spaced(call.bookId)

\* C8, amended: getBookTitle returns the value of the title key in
\* tables[language] if the key is present there with a non-empty value, else
\* its value in tables[en_us] if present and non-empty there, else the id with
\* every underscore replaced by a space; the result is a non-empty string
\* whenever the id is non-empty.
C8_GetBookTitle ==
  TitleDone =>
    /\ call.bookId # <<>> => ret.val # <<>>
    /\ ret.val = IF Has(call.langTitles, call.lang, TitleKey)
                    /\ call.langTitles[call.lang][TitleKey] # <<>>
                 THEN call.langTitles[call.lang][TitleKey]
                 ELSE IF Has(call.langTitles, en_us, TitleKey)
                         /\ call.langTitles[en_us][TitleKey] # <<>>
                      THEN call.langTitles[en_us][TitleKey]
                      ELSE Spaced(call.bookId)

\* the title of foo in an unlisted language has come from the en_us table
C8_Witness ==
  /\ TitleDone
  /\ call.bookId = foo
  /\ call.lang = fr_fr
  /\ Has(call.langTitles, en_us, TitleKey)
  /\ ret.val = <<"E">>

AuthorDone == ret.done /\ call.fn = "resolveAuthor"
HasRef == call.bookId \in DOMAIN call.bookAuthors
Ref == call.bookAuthors[call.bookId]

\* C7, as stated: resolveAuthor returns "Unknown" without a reference, a
\* string reference verbatim, for an indirection record tables[language][key]
\* if present, else tables[en_us][key] if present, else "Unknown", and
\* "Unknown" for any other reference.
C7_EveryString ==
  AuthorDone =>
    ret.val = IF ~HasRef THEN Unknown
              ELSE IF Ref.t = "string" THEN Ref.s
              ELSE IF Ref.t = "object" /\ Ref.tr.def
                   THEN IF Has(call.langTitles, call.lang, Ref.tr.s)
                        THEN call.langTitles[call.lang][Ref.tr.s]
                        ELSE IF Has(call.langTitles, en_us, Ref.tr.s)
                             THEN call.langTitles[en_us][Ref.tr.s]
                             ELSE Unknown
                   ELSE Unknown

\* C7, amended: resolveAuthor returns "Unknown" when the id has no reference
\* or an empty one (the empty string, null); a non-empty string reference
\* verbatim; for an indirection record with a non-empty key
\* tables[language][key] if present and non-empty, else tables[en_us][key] if
\* present and non-empty, else "Unknown"; and "Unknown" for any other reference.
C7_ResolveAuthor ==
  AuthorDone =>
    ret.val = IF ~HasRef THEN Unknown
              ELSE IF Ref.t = "string" THEN (IF Ref.s # <<>> THEN Ref.s ELSE Unknown)
              ELSE IF Ref.t = "object" /\ Ref.tr.def /\ Ref.tr.s # <<>>
                   THEN IF Has(call.langTitles, call.lang, Ref.tr.s)
                           /\ call.langTitles[call.lang][Ref.tr.s] # <<>>
                        THEN call.langTitles[call.lang][Ref.tr.s]
                        ELSE IF Has(call.langTitles, en_us, Ref.tr.s)
                                /\ call.langTitles[en_us][Ref.tr.s] # <<>>
                             THEN call.langTitles[en_us][Ref.tr.s]
                             ELSE Unknown
                   ELSE Unknown

\* an indirection record has been resolved in the table of the language asked for
C7_Witness ==
  /\ AuthorDone
  /\ HasRef /\ Ref = JTranslate(AuthorKey)
  /\ call.lang = ru_ru
  /\ Has(call.langTitles, en_us, AuthorKey) /\ call.langTitles[en_us][AuthorKey] = <<"E">>
  /\ ret.val = <<"R">>

RenderDone == ret.done /\ call.fn = "buildFullHTML"
IsPage(l) == l.tag = "p"
IsFooter(l) == l.tag = "footer"
AllStrings(doc) == \A j \in 1..Len(doc.contents) : doc.contents[j].t = "string"
\* the pages of doc that are non-empty once the formatting codes are stripped
Stripped(doc) == {j \in 1..Len(doc.contents) : stripFormattingCodes(doc.contents[j]).s # <<>>}
\* those that are non-empty once stripped and trimmed
StrippedTrimmed(doc) ==
  {j \in 1..Len(doc.contents) : Trim(stripFormattingCodes(doc.contents[j]).s) # <<>>}

\* C6, as stated: for the content {contents: ["Hello, friend.", ""], credit:
\* "- Narrator"} buildFullHTML renders one page block holding "Hello, friend."
\* and a footer reading "(em dash) Narrator"; every item with en_us content
\* gets one page block per page that is non-empty after stripping.
C6_FooterNarrator ==
  (RenderDone /\ call.lang = en_us /\ AllStrings(call.content)) =>
    /\ call.content = HelloDoc =>
         /\ SelectSeq(ret.val.body, IsPage) = <<Line("p", Hello)>>
         /\ SelectSeq(ret.val.body, IsFooter)
              = <<Line("footer", <<EmDash, " ", "N", "a", "r", "r", "a", "t", "o", "r">>)>>
    /\ Len(SelectSeq(ret.val.body, IsPage)) = Cardinality(Stripped(call.content))

\* C6, amended: for the content {contents: ["Hello, friend.", ""], credit:
\* "- Narrator"} of an item without title or author entry buildFullHTML renders
\* exactly one page block, holding "Hello, friend.", no block for the empty
\* page, and a footer reading "(em dash) - Narrator": the dash, a space and
\* the whole credit.  Every item with en_us content whose pages are strings
\* gets one page block per page that is non-empty after stripping the
\* formatting codes and trimming white space, holding the escaped text, and,
\* when the credit is a non-empty string, one footer of the dash, a space and
\* the stripped, escaped credit; an item without en_us content gets nothing.
C6_BuildFullHTML ==
  RenderDone =>
    /\ ret.val.threw = ~(call.lang # en_us \/ ~call.content.isArray \/ AllStrings(call.content))
    /\ call.lang # en_us => ret.val.body = <<>>
    /\ (call.lang = en_us /\ call.content = HelloDoc) =>
         ret.val.body =
           << Line("article", <<>>), Line("h2", foo), Line("byline", Unknown),
              Line("section", <<>>), Line("p", Hello), Line("/section", <<>>),
              Line("footer", <<EmDash, " ">> \o Narrator),
              Line("/article", <<>>) >>
    /\ ( /\ call.lang = en_us
         /\ call.content.isArray
         /\ call.content.contents = <<JString(<<"<", "&">>), JString(<<"a", LF, "b">>)>> )
       => SelectSeq(ret.val.body, IsPage)
            = << Line("p", <<"&", "l", "t", ";", "&", "a", "m", "p", ";">>),
                 Line("p", <<"a", "<", "b", "r", ">", "b">>) >>
    /\ (call.lang = en_us /\ AllStrings(call.content)) =>
         /\ Len(SelectSeq(ret.val.body, IsPage)) = Cardinality(StrippedTrimmed(call.content))
         /\ SelectSeq(ret.val.body, IsFooter)
              = IF call.content.credit.t = "string" /\ call.content.credit.s # <<>>
                THEN << Line("footer",
                             <<EmDash, " ">>
                             \o escapeHTML(stripFormattingCodes(call.content.credit))) >>
                ELSE <<>>

\* the document of the example has been rendered
C6_Witness ==
  /\ RenderDone
  /\ call.lang = en_us
  /\ call.content = HelloDoc
  /\ Len(SelectSeq(ret.val.body, IsPage)) = 1

====
